---- MODULE Spec2Model ----
(***************************************************************************)
(* Horizon scanning pipeline (horizon_graph.py and the crew_*_agent.py     *)
(* stages): one site pipeline per URL, run concurrently and gathered by    *)
(* run_horizon_scan.                                                       *)
(*                                                                         *)
(* Strings are sequences of tokens.  A token is a piece of text that the   *)
(* code never looks inside: every substring the code searches for ("/",    *)
(* " (", ")", ".", the scheme) is a token of its own.  Cat turns a token   *)
(* sequence into a TLA+ string where the code builds a file name.          *)
(***************************************************************************)
EXTENDS Integers, Sequences, FiniteSets, TLC

VARIABLES
    urls,      \* the urls argument of run_horizon_scan, one per site task
    now,       \* wall clock in seconds (datetime.now() at second granularity)
    fs,        \* the file system under the output directories: path -> content
    st,        \* st[i]: the graph state (a dict) of site i's pipeline
    pc,        \* pc[i]: the node site i's pipeline runs next, or Done / Failed
    loc,       \* loc[i]: local variables of the node site i is inside of
    results,   \* results[i]: what run_single_site returned for site i
    scan,      \* run_horizon_scan: "running", "returned" or "raised"
    merged,    \* all_updates, once run_horizon_scan has built it
    hist       \* history: what each site wrote, read and was answered

vars == <<urls, now, fs, st, pc, loc, results, scan, merged, hist>>

\* ------------------------------------------------------------------ bounds
NumSites == 2
MaxClock == 1
MaxRows == 2
MaxContentLen == 3

Sites == 1..NumSites

\* ------------------------------------------------------- python dictionaries
\* A dict is a function whose domain is the set of its keys.
EmptyDict == [k \in {} |-> TRUE]

Has(d, k) == k \in DOMAIN d

Get(d, k, default) == IF k \in DOMAIN d THEN d[k] ELSE default

Put(d, k, v) == [x \in DOMAIN d \cup {k} |-> IF x = k THEN v ELSE d[x]]

SetDefault(d, k, v) == IF k \in DOMAIN d THEN d ELSE Put(d, k, v)

\* ------------------------------------------------------------------ strings
RECURSIVE Cat(_)
Cat(s) == IF s = <<>> THEN "" ELSE Head(s) \o Cat(Tail(s))

IsSpace(tok) == tok \in {" ", "\n"}

RECURSIVE LStrip(_)
LStrip(s) == IF s # <<>> /\ IsSpace(Head(s)) THEN LStrip(Tail(s)) ELSE s

RECURSIVE RStrip(_)
RStrip(s) ==
    IF s # <<>> /\ IsSpace(s[Len(s)]) THEN RStrip(SubSeq(s, 1, Len(s) - 1)) ELSE s

\* str.strip()
Strip(s) == LStrip(RStrip(s))

\* tok in s, for a one-token needle
Contains(s, tok) == \E k \in 1..Len(s) : s[k] = tok

\* s.find(tok) and s.rfind(tok), 1-based, 0 when absent (python: -1)
Find(s, tok) ==
    IF Contains(s, tok) THEN CHOOSE k \in 1..Len(s) :
                                 s[k] = tok /\ \A m \in 1..(k - 1) : s[m] # tok
    ELSE 0

RFind(s, tok) ==
    IF Contains(s, tok) THEN CHOOSE k \in 1..Len(s) :
                                 s[k] = tok /\ \A m \in (k + 1)..Len(s) : s[m] # tok
    ELSE 0

\* ---------------------------------------------------------------------- URLs
\* A URL is <<scheme, netloc tokens..., path tokens...>>; a path token starts
\* with "/" , "?" or "#".
Scheme == "https://"

IsPathTok(tok) == tok \in {"/", "/x", "/y", "/n", "/rule-123", "#main"}

RECURSIVE TakeNetloc(_)
TakeNetloc(s) ==
    IF s = <<>> \/ IsPathTok(Head(s)) THEN <<>>
    ELSE <<Head(s)>> \o TakeNetloc(Tail(s))

\* urlparse(url).netloc: empty unless the URL starts with a scheme
Netloc(u) == IF u # <<>> /\ Head(u) = Scheme THEN TakeNetloc(Tail(u)) ELSE <<>>

\* .replace('.', '_')
ReplaceDots(s) == [k \in 1..Len(s) |-> IF s[k] = "." THEN "_" ELSE s[k]]

\* urlparse(url).netloc.replace('.', '_')
DomainOf(u) == Cat(ReplaceDots(Netloc(u)))

UrlA1 == <<Scheme, "a", ".", "gov", "/x">>
UrlA2 == <<Scheme, "a", ".", "gov", "/y">>
UrlB == <<Scheme, "b", ".", "org", "/n">>

\* What a caller may pass: URLs, a padded URL, and blank entries.
UrlInputs == {UrlA1, UrlA2, <<" ">> \o UrlB \o <<" ">>, <<" ">>}

\* scheme and host of a URL: everything before its first path token
SchemeNetloc(u) == IF Netloc(u) = <<>> THEN <<>> ELSE <<Scheme>> \o Netloc(u)

RECURSIVE DirOf(_)
\* a URL up to and including its last "/" (the directory relative links resolve in)
DirOf(u) ==
    IF u = <<>> THEN <<>>
    ELSE IF IsPathTok(u[Len(u)]) THEN SubSeq(u, 1, Len(u) - 1) \o <<"/">>
    ELSE u

\* urllib.parse.urljoin(base_url, href) for the forms of href in the model:
\* absolute, root-relative ("/..."), fragment ("#...") and plain relative.
UrlJoin(base, href) ==
    IF base = <<>> THEN href
    ELSE IF href = <<>> THEN base
    ELSE IF Head(href) = Scheme THEN href
    ELSE IF Head(href) \in {"/", "/x", "/y", "/n", "/rule-123"} THEN SchemeNetloc(base) \o href
    ELSE IF Head(href) = "#main" THEN base \o href
    ELSE DirOf(base) \o href

\* ---------------------------------------------------------------- HTML trees
\* An HTML string is modelled by the tree html.parser builds from it.  A text
\* node has tag "#text"; the document node has tag "[document]".
Txt(s) == [tag |-> "#text", text |-> s, href |-> <<>>, kids |-> <<>>]

El(t, kids) == [tag |-> t, text |-> <<>>, href |-> <<>>, kids |-> kids]

Anchor(h, kids) == [tag |-> "a", text |-> <<>>, href |-> h, kids |-> kids]

Doc(kids) == El("[document]", kids)

\* the empty string
EmptyHtml == Doc(<<>>)

TAGS_TO_REMOVE == {"script", "style", "noscript", "footer", "header", "nav", "aside"}

RECURSIVE GetText(_)
\* tag.get_text(strip=True): the stripped strings below a node, concatenated
GetText(n) ==
    IF n.tag = "#text" THEN Strip(n.text)
    ELSE IF n.kids = <<>> THEN <<>>
    ELSE GetText(Head(n.kids)) \o GetText([n EXCEPT !.kids = Tail(n.kids)])

RECURSIVE RemoveTags(_, _)
\* for element in soup.find_all(tag): element.decompose(), for each tag of tags
RemoveTags(kids, tags) ==
    IF kids = <<>> THEN <<>>
    ELSE LET h == Head(kids)
         IN  (IF h.tag \in tags THEN <<>>
              ELSE <<[h EXCEPT !.kids = RemoveTags(h.kids, tags)]>>)
             \o RemoveTags(Tail(kids), tags)

\* A faulty variant of the second pass of _clean_html_content, kept to show
\* that the properties of the sanitizer tell it apart: it tests tag.contents
\* instead of the text, so it removes only the elements that hold nothing
RECURSIVE RemoveChildless(_)
RemoveChildless(kids) ==
    IF kids = <<>> THEN <<>>
    ELSE LET h == Head(kids)
         IN  (IF h.tag # "#text" /\ h.kids = <<>> /\ h.tag \notin {"br", "hr"}
              THEN <<>>
              ELSE <<[h EXCEPT !.kids = RemoveChildless(h.kids)]>>)
             \o RemoveChildless(Tail(kids))

RECURSIVE RemoveEmpty(_)
\* the pass over soup.find_all() in document order: an element whose text is
\* empty is decomposed with everything below it, unless it is br or hr
RemoveEmpty(kids) ==
    IF kids = <<>> THEN <<>>
    ELSE LET h == Head(kids)
         IN  (IF h.tag # "#text" /\ GetText(h) = <<>> /\ h.tag \notin {"br", "hr"}
              THEN <<>>
              ELSE <<[h EXCEPT !.kids = RemoveEmpty(h.kids)]>>)
             \o RemoveEmpty(Tail(kids))

RECURSIVE Prettify(_, _)
\* soup.prettify() read back by html.parser: every string is stripped and put
\* on a line of its own (a whitespace-only string is dropped), and every
\* element is followed by a line break; first marks the first child.
Prettify(kids, first) ==
    IF kids = <<>> THEN <<>>
    ELSE LET h == Head(kids)
             dropped == h.tag = "#text" /\ Strip(h.text) = <<>>
         IN  (IF h.tag = "#text"
              THEN IF dropped THEN <<>>
                   ELSE <<Txt(<<"\n">> \o Strip(h.text) \o <<"\n">>)>>
              ELSE (IF first THEN <<Txt(<<"\n">>)>> ELSE <<>>)
                   \o <<[h EXCEPT !.kids = Prettify(h.kids, TRUE)]>>
                   \o <<Txt(<<"\n">>)>>)
             \o Prettify(Tail(kids), first /\ dropped)

\* CleanerAgent._clean_html_content
CleanHtmlContent(raw_html) ==
    Doc(Prettify(RemoveEmpty(RemoveTags(raw_html.kids, TAGS_TO_REMOVE)), FALSE))

RECURSIVE FindBody(_)
\* soup.body: the first body element in document order, or None (<<>>)
FindBody(kids) ==
    IF kids = <<>> THEN <<>>
    ELSE LET h == Head(kids)
         IN  IF h.tag = "body" THEN <<h>>
             ELSE IF FindBody(h.kids) # <<>> THEN FindBody(h.kids)
             ELSE FindBody(Tail(kids))

RECURSIVE Traverse(_, _)
\* traverse(node) of _extract_visible_text_and_links, over a list of siblings:
\* the parts appended to result
Traverse(kids, base_url) ==
    IF kids = <<>> THEN <<>>
    ELSE LET h == Head(kids)
         IN  (IF h.tag = "#text"
              THEN IF Strip(h.text) # <<>> THEN <<Strip(h.text)>> ELSE <<>>
              ELSE IF h.tag = "a" /\ h.href # <<>>
              THEN IF GetText(h) # <<>>
                   THEN <<GetText(h) \o <<" (">> \o UrlJoin(base_url, h.href) \o <<")">>>>
                   ELSE <<>>
              ELSE Traverse(h.kids, base_url))
             \o Traverse(Tail(kids), base_url)

RECURSIVE RStripParen(_)
\* .rstrip(")")
RStripParen(s) ==
    IF s # <<>> /\ s[Len(s)] = ")" THEN RStripParen(SubSeq(s, 1, Len(s) - 1)) ELSE s

\* part.split(" (")[-1]
AfterLastParen(part) == SubSeq(part, RFind(part, " (") + 1, Len(part))

RECURSIVE JoinParts(_)
\* " ".join(result)
JoinParts(parts) ==
    IF parts = <<>> THEN <<>>
    ELSE IF Len(parts) = 1 THEN parts[1]
    ELSE parts[1] \o <<" ">> \o JoinParts(Tail(parts))

\* HTMLExtractorAgent._extract_visible_text_and_links, given the file's content
ExtractVisibleTextAndLinks(html, base_url) ==
    LET soup == RemoveTags(html.kids, TAGS_TO_REMOVE)
        body == FindBody(soup)
        result == Traverse(IF body # <<>> THEN body ELSE soup, base_url)
    IN  [text |-> JoinParts(result),
         links |-> {RStripParen(AfterLastParen(result[k])) :
                        k \in {m \in 1..Len(result) : Contains(result[m], " (")}}]

\* What the browser renders for a URL (links already made absolute by
\* _convert_links_to_absolute): one page per URL, telling the sites apart by
\* the path it names.
Page(u) ==
    Doc(<<El("html", <<El("body", <<
        El("nav", <<Txt(<<"X">>)>>),
        El("p", <<Txt(<<"Update:", " ", "Rule", " ", u[Len(u)], " ">>),
                  Anchor(SchemeNetloc(u) \o <<"/rule-123">>, <<Txt(<<"details">>)>>)>>),
        El("div", <<El("br", <<>>)>>)>>)>>)>>)

\* the synthetic document _scrape_site returns when the fetch raises e
ErrorPage(u, e) ==
    Doc(<<El("html", <<El("body", <<
        El("h1", <<Txt(<<"Error scraping ">> \o u)>>),
        El("p", <<Txt(e)>>)>>)>>)>>)

\* str(e) of the exceptions a fetch may raise
FetchErrors == {<<"Timeout 60000ms exceeded">>}

\* ---------------------------------------------------------------- dataframes
\* A cell is a python value: a string, NaN (pandas' missing value, a float)
\* or None.
Str(s) == [t |-> "str", s |-> s]

NaN == [t |-> "nan", s |-> <<>>]

None == [t |-> "none", s |-> <<>>]

BaseColumns == <<"date", "topic", "additional_context", "link", "regulator">>

SeqToSet(s) == {s[k] : k \in 1..Len(s)}

\* pd.DataFrame(columns=[...]) with no rows
EmptyFrame == [cols |-> BaseColumns, rows |-> <<>>]

\* str.lower(), token by token
LowerTok(tok) ==
    CASE tok = "Rule" -> "rule"
      [] tok = "Error scraping " -> "error scraping "
      [] tok = "Error scraping" -> "error scraping"
      [] OTHER -> tok

Lower(s) == [k \in 1..Len(s) |-> LowerTok(s[k])]

\* difflib.SequenceMatcher(None, x, word).ratio() in thousandths, rounded
\* down, for the words and links of the model
RatioTable ==
    { <<"additional_context", "https://a.gov/", 125>>,
      <<"additional_context", "https://a.gov/rule-123", 150>>,
      <<"additional_context", "https://a.gov/x#main", 157>>,
      <<"additional_context", "https://b.org/rule-123", 150>>,
      <<"rule 123", "https://a.gov/", 0>>,
      <<"rule 123", "https://a.gov/2024/rule-123", 400>>,
      <<"rule 123", "https://a.gov/news?topics=rule-123", 333>>,
      <<"rule 123", "https://a.gov/x#content__main", 54>>,
      <<"rule 123", "https://a.gov/rule-123", 466>>,
      <<"rule 123", "https://a.gov/x#main", 0>>,
      <<"rule 123", "https://b.org/rule-123", 466>>,
      <<"error scraping", "https://a.gov/", 142>>,
      <<"error scraping", "https://a.gov/rule-123", 111>>,
      <<"error scraping", "https://a.gov/x#main", 176>>,
      <<"error scraping", "https://b.org/rule-123", 166>> }

Ratio(word, x) ==
    LET w == Cat(word)
        l == Cat(x)
    IN  (CHOOSE e \in RatioTable : e[1] = w /\ e[2] = l)[3]

\* the links of the model in python's string order
LinkOrder ==
    << "https://a.gov/", "https://a.gov/2024/rule-123",
       "https://a.gov/news?topics=rule-123", "https://a.gov/rule-123",
       "https://a.gov/x#content__main", "https://a.gov/x#main",
       "https://b.org/rule-123" >>

Rank(x) == CHOOSE k \in 1..Len(LinkOrder) : LinkOrder[k] = Cat(x)

\* cutoff=0.3, in thousandths
CutoffPerMille == 300

\* difflib.get_close_matches(word, possibilities, n=1, cutoff=0.3): the
\* candidates scoring at least the cutoff, the best first; heapq.nlargest
\* orders (score, x) pairs, so equal scores fall to the greater string
GetCloseMatches(word, possibilities) ==
    LET score == [x \in possibilities |-> Ratio(word, x)]
        ok == {x \in possibilities : score[x] >= CutoffPerMille}
        rank == [x \in ok |-> Rank(x)]
    IN  IF ok = {} THEN <<>>
        ELSE <<CHOOSE x \in ok :
                 \A y \in ok : \/ score[y] < score[x]
                               \/ /\ score[y] = score[x]
                                  /\ rank[y] <= rank[x]>>

\* ------------------------------------------------------ JSON (json.loads)
JNull == [j |-> "null"]

JNum == [j |-> "num"]

JStr(s) == [j |-> "str", s |-> s]

JArr(items) == [j |-> "arr", items |-> items]

JObj(d) == [j |-> "obj", d |-> d]

AC == <<"additional_context">>

\* "additional_context" in item, or TypeError
InRaises(item) == item.j \in {"null", "num"}

HasAC(item) ==
    CASE item.j = "str" -> Contains(item.s, "additional_context")
      [] item.j = "arr" -> \E k \in 1..Len(item.items) : item.items[k] = JStr(AC)
      [] item.j = "obj" -> "additional_context" \in DOMAIN item.d

\* one turn of the loop over parsed: does it raise?
ItemRaises(item) ==
    \/ InRaises(item)
    \/ item.j \in {"str", "arr"} /\ ~HasAC(item)   \* item[...] = "" on a str or list

\* the loop's effect on an item that does not raise
ItemDefaulted(item) ==
    IF item.j = "obj" /\ ~HasAC(item)
    THEN JObj(Put(item.d, "additional_context", JStr(<<>>)))
    ELSE item

\* the items the loop over parsed visits: the elements of a list, the keys of
\* a dict, the characters of a string
LoopItems(parsed) ==
    CASE parsed.j = "arr" -> parsed.items
      [] parsed.j = "obj" ->
            LET keys == DOMAIN parsed.d
                RECURSIVE AsSeq(_)
                AsSeq(S) == IF S = {} THEN <<>>
                            ELSE LET k == CHOOSE k \in S : TRUE
                                 IN  <<JStr(<<k>>)>> \o AsSeq(S \ {k})
            IN  AsSeq(keys)
      [] parsed.j = "str" -> [k \in 1..Len(parsed.s) |-> JStr(<<"c">>)]

LoopRaises(parsed) ==
    \/ parsed.j \in {"null", "num"}                 \* not iterable
    \/ \E k \in 1..Len(LoopItems(parsed)) : ItemRaises(LoopItems(parsed)[k])

\* the cell pandas makes of a JSON value
CellOf(v) == IF v.j = "str" THEN Str(v.s) ELSE None

AllOfKind(items, kind) == \A k \in 1..Len(items) : items[k].j = kind

\* pd.DataFrame(parsed, columns=BaseColumns): the frame, or Raised.  A list
\* holds elements of one kind (the inputs of the model do not mix kinds).
Raised == [raised |-> TRUE]

BuildFrame(parsed) ==
    CASE parsed.j = "arr" /\ parsed.items = <<>> -> EmptyFrame
      [] parsed.j = "arr" /\ parsed.items # <<>> /\ AllOfKind(parsed.items, "obj") ->
            \* list of dicts: the named columns are picked, a missing key is NaN
            [cols |-> BaseColumns,
             rows |-> [k \in 1..Len(parsed.items) |->
                          [c \in SeqToSet(BaseColumns) |->
                              IF c \in DOMAIN parsed.items[k].d
                              THEN CellOf(parsed.items[k].d[c]) ELSE NaN]]]
      [] parsed.j = "arr" /\ parsed.items # <<>> /\ AllOfKind(parsed.items, "arr") ->
            \* list of lists: rows by position, short rows padded with None;
            \* the widest row must have as many elements as there are columns
            LET width == CHOOSE w \in 0..10 :
                            /\ \A k \in 1..Len(parsed.items) : Len(parsed.items[k].items) <= w
                            /\ \E k \in 1..Len(parsed.items) : Len(parsed.items[k].items) = w
            IN  IF width # Len(BaseColumns) THEN Raised
                ELSE [cols |-> BaseColumns,
                      rows |-> [k \in 1..Len(parsed.items) |->
                                  [c \in SeqToSet(BaseColumns) |->
                                      LET p == CHOOSE p \in 1..Len(BaseColumns) : BaseColumns[p] = c
                                      IN  IF p <= Len(parsed.items[k].items)
                                          THEN CellOf(parsed.items[k].items[p]) ELSE None]]]
      [] parsed.j = "arr" /\ parsed.items # <<>> /\ AllOfKind(parsed.items, "str") ->
            Raised                                  \* one column of data, five names
      [] parsed.j = "str" -> Raised                 \* "DataFrame constructor not properly called"
      [] parsed.j = "obj" ->
            \* dict of columns: only the named columns are used; their common
            \* length is the number of rows; scalars alone give no length
            LET used == {c \in SeqToSet(BaseColumns) :
                            c \in DOMAIN parsed.d /\ parsed.d[c].j # "null"}
            IN  IF used = {} THEN EmptyFrame
                ELSE IF \E c \in used : parsed.d[c].j # "arr" THEN Raised
                ELSE IF \E c, e \in used : Len(parsed.d[c].items) # Len(parsed.d[e].items)
                THEN Raised
                ELSE LET n == Len(parsed.d[CHOOSE c \in used : TRUE].items)
                     IN  [cols |-> BaseColumns,
                          rows |-> [k \in 1..n |->
                                      [c \in SeqToSet(BaseColumns) |->
                                          IF c \in used THEN CellOf(parsed.d[c].items[k])
                                          ELSE NaN]]]

\* re.sub with the pattern of line 79 removes a code fence opened with three
\* backquotes and json ("json") or with the backquotes alone ("bare"); any
\* other opening fence ("other") stays, and json.loads fails on it
StrippedFences == {"none", "json", "bare"}

\* LLMExtractorAgent._classify_with_llm, given the classifier's answer: an
\* exception (kind "raise") or a text (a fence and a body; body NotJson when
\* the text inside the fence is not JSON)
NotJson == [j |-> "notjson"]

ClassifyWithLLM(resp) ==
    IF resp.kind = "raise" THEN EmptyFrame
    ELSE IF resp.fence \notin StrippedFences \/ resp.body = NotJson THEN EmptyFrame
    ELSE IF LoopRaises(resp.body) THEN EmptyFrame
    ELSE LET parsed ==
                 IF resp.body.j = "arr"
                 THEN JArr([k \in 1..Len(resp.body.items) |->
                               ItemDefaulted(resp.body.items[k])])
                 ELSE resp.body
             frame == BuildFrame(parsed)
         IN  IF frame = Raised THEN EmptyFrame ELSE frame

\* not row["link"] or row["link"].strip() == "": "raise" on a float (NaN)
LinkIsBlank(link) ==
    CASE link.t = "none" -> "yes"
      [] link.t = "nan" -> "raise"             \* NaN is truthy and has no strip()
      [] link.t = "str" -> IF Strip(link.s) = <<>> THEN "yes" ELSE "no"

\* one turn of the loop of _fix_links on a row: the row, or Raised
FixLinkOfRow(row, known_links) ==
    CASE LinkIsBlank(row["link"]) = "raise" -> Raised
      [] LinkIsBlank(row["link"]) = "no" -> row
      [] LinkIsBlank(row["link"]) = "yes" ->
            IF row["topic"].t # "str" THEN Raised      \* topic.lower() on None or NaN
            ELSE LET matches == GetCloseMatches(Lower(row["topic"].s), known_links)
                 IN  IF matches # <<>> THEN [row EXCEPT !["link"] = Str(matches[1])]
                     ELSE row

\* LLMExtractorAgent._fix_links: the frame, or Raised
FixLinks(df, known_links) ==
    IF \E k \in 1..Len(df.rows) : FixLinkOfRow(df.rows[k], known_links) = Raised
    THEN Raised
    ELSE [df EXCEPT !.rows = [k \in 1..Len(df.rows) |->
                                 FixLinkOfRow(df.rows[k], known_links)]]

\* df.to_csv(path, index=False): the header and, per row, the text of each
\* cell; a missing value is written as the empty text
CellText(cell) == IF cell.t = "str" THEN cell.s ELSE <<>>

ToCsv(df) ==
    [cols |-> df.cols,
     rows |-> [k \in 1..Len(df.rows) |->
                 [c \in SeqToSet(df.cols) |-> CellText(df.rows[k][c])]]]

\* the texts pd.read_csv reads as missing (its default na_values)
NA_VALUES ==
    { <<>>, <<"N/A">>, <<"NA">>, <<"n/a">>, <<"None">>, <<"null">>, <<"NULL">>,
      <<"nan">>, <<"NaN">>, <<"#N/A">> }

\* pd.read_csv(path): the texts of the model are not numbers, so every other
\* cell is read as a string
ReadCsv(csv) ==
    [cols |-> csv.cols,
     rows |-> [k \in 1..Len(csv.rows) |->
                 [c \in SeqToSet(csv.cols) |->
                     IF csv.rows[k][c] \in NA_VALUES THEN NaN ELSE Str(csv.rows[k][c])]]]

\* ------------------------------------------------------------ the site graph
\* generate_run_id(): a time stamp and six hex digits of a fresh uuid4, told
\* apart here by the site the id was made for
RunId(i) == <<"run_", ToString(i)>>

\* State = Dict[str, any] declares no keys, so the compiled graph keeps the
\* whole state in one channel: the value a node returns is the next state.
NodeResult(state, returned) == returned

OUTPUT_DIR == "regulatory_outputs/site_outputs/"

\* OUTPUT_DIR of crew_html_extractor_agent.py, an absolute path
EXTRACT_DIR == "C:/Users/hp/Documents/Agent Store 1 - Copy/regulatory_outputs/site_outputs/"

ArtifactPath(dir, url, suffix) == dir \o DomainOf(url) \o suffix

StampedPath(url, infix, t) ==
    OUTPUT_DIR \o (IF url # <<>> THEN DomainOf(url) ELSE "unknown")
               \o infix \o ToString(t) \o ".csv"

Exists(files, path) == path \in DOMAIN files

\* history of a file write and of a file read by site i; a read is foreign
\* when the content is not what site i itself last wrote to that path
LogWrite(h, i, path, content) ==
    [h EXCEPT !.wrote = @ \cup {<<i, path>>},
              !.own = [@ EXCEPT ![i] = Put(@, path, content)]]

LogRead(h, i, path, content) ==
    [h EXCEPT !.read = @ \cup {<<i, path>>},
              !.foreign = IF Has(h.own[i], path) /\ h.own[i][path] = content
                          THEN @ ELSE @ \cup {i}]

Fail(i, stage, error) ==
    /\ pc' = [pc EXCEPT ![i] = "Failed"]
    /\ hist' = [hist EXCEPT !.error = [@ EXCEPT ![i] = <<stage, error>>]]
    /\ UNCHANGED <<urls, now, fs, st, loc, results, scan, merged>>

\* scraper_node: ScraperAgent.run with _scrape_site; outcome is <<"ok">> or
\* the message of the exception the browser raised
Scraper(i, outcome) ==
    /\ pc[i] = "scraper"
    /\ LET input_data == st[i]
           url == Get(input_data, "url", <<>>)
       IN  IF url = <<>>
           THEN Fail(i, "scraper", "ValueError")
           ELSE LET html_output == IF outcome = <<"ok">> THEN Page(url)
                                   ELSE ErrorPage(url, outcome)
                    output_path == ArtifactPath(OUTPUT_DIR, url, "_scraped.html")
                IN  /\ fs' = Put(fs, output_path, html_output)
                    /\ st' = [st EXCEPT ![i] = NodeResult(st[i],
                                 Put(Put(input_data, "scraped_html", html_output),
                                     "scraped_file", output_path))]
                    /\ pc' = [pc EXCEPT ![i] = "cleaner"]
                    /\ hist' = [LogWrite(hist, i, output_path, html_output)
                                   EXCEPT !.fetchFailed = [@ EXCEPT ![i] = outcome # <<"ok">>]]
                    /\ UNCHANGED <<urls, now, loc, results, scan, merged>>

\* cleaner_node: CleanerAgent.run
Cleaner(i) ==
    /\ pc[i] = "cleaner"
    /\ LET input_data == st[i]
           raw_html == Get(input_data, "scraped_html", EmptyHtml)
           url == Get(input_data, "url", <<>>)
       IN  IF raw_html = EmptyHtml \/ url = <<>>
           THEN Fail(i, "cleaner", "ValueError")
           ELSE LET cleaned_html == CleanHtmlContent(raw_html)
                    output_path == ArtifactPath(OUTPUT_DIR, url, "_cleaned.html")
                IN  /\ fs' = Put(fs, output_path, cleaned_html)
                    /\ st' = [st EXCEPT ![i] = NodeResult(st[i],
                                 Put(Put(input_data, "cleaned_html", cleaned_html),
                                     "cleaned_file", output_path))]
                    /\ pc' = [pc EXCEPT ![i] = "html_extractor"]
                    /\ hist' = LogWrite(hist, i, output_path, cleaned_html)
                    /\ UNCHANGED <<urls, now, loc, results, scan, merged>>

\* html_extractor_node: HTMLExtractorAgent.run on url and cleaned_file only
HtmlExtractor(i) ==
    /\ pc[i] = "html_extractor"
    /\ LET url == st[i]["url"]
           html_path == st[i]["cleaned_file"]
       IN  IF ~Exists(fs, html_path)
           THEN Fail(i, "html_extractor", "FileNotFoundError")
           ELSE LET got == ExtractVisibleTextAndLinks(fs[html_path], url)
                    output_path == ArtifactPath(EXTRACT_DIR, url, "_extracted.txt")
                    output == [k \in {"url", "extracted_text", "extracted_links",
                                      "extracted_file"} |->
                                  CASE k = "url" -> url
                                    [] k = "extracted_text" -> got.text
                                    [] k = "extracted_links" -> got.links
                                    [] k = "extracted_file" -> output_path]
                IN  /\ fs' = Put(fs, output_path, got.text)
                    /\ st' = [st EXCEPT ![i] = NodeResult(st[i], output)]
                    /\ pc' = [pc EXCEPT ![i] = "llm_extractor"]
                    /\ hist' = LogWrite(LogRead(hist, i, html_path, fs[html_path]),
                                        i, output_path, got.text)
                    /\ UNCHANGED <<urls, now, loc, results, scan, merged>>

\* llm_extractor_node: LLMExtractorAgent.run on url, extracted_file and
\* extracted_links; resp is the classifier's answer
LlmExtractor(i, resp) ==
    /\ pc[i] = "llm_extractor"
    /\ LET url == st[i]["url"]
           txt_file == st[i]["extracted_file"]
           known_links == st[i]["extracted_links"]
       IN  IF ~Exists(fs, txt_file)
           THEN Fail(i, "llm_extractor", "FileNotFoundError")
           ELSE LET classified == ClassifyWithLLM(resp)
                    df == FixLinks(classified, known_links)
                    output_path == StampedPath(url, "_llm_output_", now)
                    output == [k \in {"url", "llm_output_file"} |->
                                  IF k = "url" THEN url ELSE output_path]
                    seen == [LogRead(hist, i, txt_file, fs[txt_file])
                                EXCEPT !.answer = [@ EXCEPT ![i] = resp],
                                       !.classified = [@ EXCEPT ![i] = classified]]
                IN  IF df = Raised
                    THEN /\ pc' = [pc EXCEPT ![i] = "Failed"]
                         /\ hist' = [seen EXCEPT !.error =
                                        [@ EXCEPT ![i] = <<"llm_extractor", "AttributeError">>]]
                         /\ UNCHANGED <<urls, now, fs, st, loc, results, scan, merged>>
                    ELSE /\ fs' = Put(fs, output_path, ToCsv(df))
                         /\ st' = [st EXCEPT ![i] = NodeResult(st[i], output)]
                         /\ pc' = [pc EXCEPT ![i] = "exclusion"]
                         /\ hist' = [LogWrite(seen, i, output_path, ToCsv(df))
                                        EXCEPT !.structured = [@ EXCEPT ![i] = df]]
                         /\ UNCHANGED <<urls, now, loc, results, scan, merged>>

\* ---------------------------------------------------------- relevance filter
\* The classifier's answer to one review: an exception (kind "raise", with
\* its message), or a text.  The text is a sequence of tokens: "{" and "}",
\* "b" for the members of a JSON object (key: value pairs, well formed) and
\* "p" for any other prose; fields holds the members a "b" stands for.

\* content[json_start:json_end] with json_start = content.find("{") and
\* json_end = content.rfind("}") + 1; find gives -1 when there is none, and
\* a negative start counts from the end of the text
JsonSpan(content) ==
    LET json_start == Find(content, "{") - 1
        json_end == RFind(content, "}")
        from == IF json_start >= 0 THEN json_start
                ELSE IF Len(content) + json_start >= 0 THEN Len(content) + json_start
                ELSE 0
    IN  SubSeq(content, from + 1, json_end)

\* json.loads accepts the text: an object, empty or with well-formed members
IsJsonObject(text) == text \in {<<"{", "}">>, <<"{", "b", "}">>}

JsonLoadsObject(text, fields) == IF text = <<"{", "}">> THEN EmptyDict ELSE fields

\* A faulty variant of _review_llm, kept to show that the fail-closed property
\* tells it apart: it reads the members out of any text that holds some, even
\* when the text from the first "{" to the last "}" is not valid JSON
ReviewLLMLenient(resp) ==
    IF resp.kind = "raise"
    THEN [k \in {"recommendation", "reason"} |->
             IF k = "recommendation" THEN Str(<<"Exclude">>)
             ELSE Str(<<"LLM parsing error: ">> \o resp.msg)]
    ELSE IF Contains(resp.toks, "b") THEN resp.fields
    ELSE IF JsonSpan(resp.toks) = <<"{", "}">> THEN EmptyDict
    ELSE [k \in {"recommendation", "reason"} |->
             IF k = "recommendation" THEN Str(<<"Exclude">>)
             ELSE Str(<<"LLM parsing error: ", "Expecting value">>)]

\* ExclusionAgent._review_llm: the dict it returns
ReviewLLM(resp) ==
    IF resp.kind = "raise"
    THEN [k \in {"recommendation", "reason"} |->
             IF k = "recommendation" THEN Str(<<"Exclude">>)
             ELSE Str(<<"LLM parsing error: ">> \o resp.msg)]
    ELSE LET json_text == JsonSpan(resp.toks)
         IN  IF IsJsonObject(json_text) THEN JsonLoadsObject(json_text, resp.fields)
             ELSE [k \in {"recommendation", "reason"} |->
                      IF k = "recommendation" THEN Str(<<"Exclude">>)
                      ELSE Str(<<"LLM parsing error: ", "Expecting value">>)]

\* the review failed: the call raised, the text holds no JSON object, or the
\* text from the first "{" to the last "}" is not valid JSON
ReviewFailed(resp) ==
    \/ resp.kind = "raise"
    \/ resp.kind = "text" /\ ~IsJsonObject(JsonSpan(resp.toks))

\* df["Recommendation"] = ""; df["Reason"] = ""
WithDecisionColumns(df) ==
    [cols |-> df.cols \o <<"Recommendation", "Reason">>,
     rows |-> [k \in 1..Len(df.rows) |->
                 Put(Put(df.rows[k], "Recommendation", Str(<<>>)), "Reason", Str(<<>>))]]

\* exclusion_node, first part: ExclusionAgent.run up to its loop, on url and
\* llm_output_file only (no llm_dataframe is handed over)
ExclusionLoad(i) ==
    /\ pc[i] = "exclusion"
    /\ LET url == st[i]["url"]
           llm_file == st[i]["llm_output_file"]
       IN  IF ~Exists(fs, llm_file)
           THEN Fail(i, "exclusion", "FileNotFoundError")
           ELSE LET df == WithDecisionColumns(ReadCsv(fs[llm_file]))
                IN  /\ loc' = [loc EXCEPT ![i] =
                                  [k \in {"df", "row", "timestamp"} |->
                                      CASE k = "df" -> df
                                        [] k = "row" -> 1
                                        [] k = "timestamp" -> now]]
                    /\ pc' = [pc EXCEPT ![i] = "exclusion_loop"]
                    /\ hist' = [LogRead(hist, i, llm_file, fs[llm_file])
                                   EXCEPT !.loaded = [@ EXCEPT ![i] = fs[llm_file]],
                                          !.failed = [@ EXCEPT ![i] = <<>>]]
                    /\ UNCHANGED <<urls, now, fs, st, results, scan, merged>>

\* one turn of the loop of ExclusionAgent.run: the review of row loc[i].row,
\* answered by resp
ExclusionReview(i, resp) ==
    /\ pc[i] = "exclusion_loop"
    /\ loc[i]["row"] <= Len(loc[i]["df"].rows)
    /\ LET r == loc[i]["row"]
           df == loc[i]["df"]
           result == ReviewLLM(resp)
           row == Put(Put(df.rows[r],
                          "Recommendation", Get(result, "recommendation", Str(<<"Exclude">>))),
                      "Reason", Get(result, "reason", Str(<<"No reason provided">>)))
       IN  /\ loc' = [loc EXCEPT ![i] =
                         Put(Put(@, "df", [df EXCEPT !.rows = [@ EXCEPT ![r] = row]]),
                             "row", r + 1)]
           /\ hist' = [hist EXCEPT !.failed = [@ EXCEPT ![i] = Append(@, ReviewFailed(resp))]]
           /\ UNCHANGED <<urls, now, fs, st, pc, results, scan, merged>>

\* exclusion_node, last part: the end of ExclusionAgent.run and the node's
\* final_updates = filtered_dataframe.to_dict(orient="records")
ExclusionFinish(i) ==
    /\ pc[i] = "exclusion_loop"
    /\ loc[i]["row"] > Len(loc[i]["df"].rows)
    /\ LET url == st[i]["url"]
           df == loc[i]["df"]
           output_path == StampedPath(url, "_exclusion_checked_", loc[i]["timestamp"])
           returned == [k \in {"url", "exclusion_file", "filtered_dataframe"} |->
                           CASE k = "url" -> url
                             [] k = "exclusion_file" -> output_path
                             [] k = "filtered_dataframe" -> df]
           state == Put(returned, "final_updates", df.rows)
       IN  /\ fs' = Put(fs, output_path, ToCsv(df))
           /\ st' = [st EXCEPT ![i] = NodeResult(st[i], state)]
           /\ pc' = [pc EXCEPT ![i] = "output"]
           /\ loc' = [loc EXCEPT ![i] = EmptyDict]
           /\ hist' = LogWrite(hist, i, output_path, ToCsv(df))
           /\ UNCHANGED <<urls, now, results, scan, merged>>

\* output_node, then the return of run_single_site
OutputNode(i) ==
    /\ pc[i] = "output"
    /\ LET state == st[i]
           updates == Get(state, "final_updates", <<>>)
           source_url == Get(state, "url", <<"unknown">>)
           run_id == Get(state, "run_id", <<"none">>)
           enriched_updates ==
               [k \in 1..Len(updates) |->
                   SetDefault(SetDefault(updates[k], "source_url", Str(source_url)),
                              "run_id", Str(run_id))]
           combined == Get(state, "combined_updates", <<>>) \o enriched_updates
           result == Put(state, "combined_updates", combined)
       IN  /\ st' = [st EXCEPT ![i] = NodeResult(st[i], result)]
           /\ results' = [results EXCEPT ![i] = Get(result, "combined_updates", <<>>)]
           /\ pc' = [pc EXCEPT ![i] = "Done"]
           /\ UNCHANGED <<urls, now, fs, loc, scan, merged, hist>>

\* ---------------------------------------------------------- run_horizon_scan
RECURSIVE Flatten(_)
\* [item for sublist in all_results for item in sublist]
Flatten(lists) == IF lists = <<>> THEN <<>> ELSE Head(lists) \o Flatten(Tail(lists))

MergedPath(t) == "regulatory_outputs/horizon_scan_combined_" \o ToString(t) \o ".csv"

\* asyncio.gather(*tasks) returns once every task has returned; the merge
\* and the combined file follow
GatherReturn ==
    /\ scan = "running"
    /\ \A i \in Sites : pc[i] = "Done"
    /\ LET all_updates == Flatten([i \in Sites |-> results[i]])
       IN  /\ merged' = all_updates
           /\ fs' = IF all_updates # <<>> THEN Put(fs, MergedPath(now), all_updates) ELSE fs
    /\ scan' = "returned"
    /\ UNCHANGED <<urls, now, st, pc, loc, results, hist>>

\* asyncio.gather(*tasks) without return_exceptions: the first exception of a
\* task is raised to the awaiting run_horizon_scan at once; no task is
\* cancelled, and nothing is merged
GatherRaise ==
    /\ scan = "running"
    /\ \E i \in Sites : pc[i] = "Failed"
    /\ scan' = "raised"
    /\ UNCHANGED <<urls, now, fs, st, pc, loc, results, merged, hist>>

\* a second passes
Tick ==
    /\ now < MaxClock
    /\ now' = now + 1
    /\ UNCHANGED <<urls, fs, st, pc, loc, results, scan, merged, hist>>

\* ------------------------------------------------------------ specification
\* the answers of the structuring classifier
Answer(fence, body) == [kind |-> "text", fence |-> fence, body |-> body]

AnswerRaises == [kind |-> "raise", fence |-> "none", body |-> NotJson]

NoAnswer == [kind |-> "none", fence |-> "none", body |-> NotJson]

Rule123 == <<"Rule", " ", "123">>

\* a record with every key, its link left blank
FullRecord ==
    JObj([k \in SeqToSet(BaseColumns) |->
             CASE k = "date" -> JStr(<<"2024-01-01">>)
               [] k = "topic" -> JStr(Rule123)
               [] k = "additional_context" -> JStr(<<"ctx">>)
               [] k = "link" -> JStr(<<>>)
               [] k = "regulator" -> JStr(<<"SEC">>)])

Without(obj, keys) == JObj([k \in DOMAIN obj.d \ keys |-> obj.d[k]])

\* the answers a site pipeline is given in Spec
PipelineAnswers ==
    { AnswerRaises,
      Answer("json", JArr(<<FullRecord>>)),
      Answer("none", JArr(<<Without(FullRecord, {"link", "additional_context"})>>)) }

\* the answers of the relevance classifier
Review(toks, fields) == [kind |-> "text", toks |-> toks, fields |-> fields, msg |-> <<>>]

ReviewRaises(msg) == [kind |-> "raise", toks |-> <<>>, fields |-> EmptyDict, msg |-> msg]

Decision(rec, reason) ==
    [k \in {"recommendation", "reason"} |-> IF k = "recommendation" THEN rec ELSE reason]

\* the answers a site pipeline is given in Spec
PipelineReviews ==
    { ReviewRaises(<<"Connection error.">>),
      Review(<<"p", "{", "b", "}">>, Decision(Str(<<"Include">>), Str(<<"because">>))) }

FetchOutcomes == {<<"ok">>} \cup FetchErrors

NoFrame == [cols |-> <<>>, rows |-> <<>>]

InitHist ==
    [fetchFailed |-> [i \in Sites |-> FALSE],
     wrote |-> {},
     read |-> {},
     foreign |-> {},
     own |-> [i \in Sites |-> EmptyDict],
     error |-> [i \in Sites |-> <<>>],
     answer |-> [i \in Sites |-> NoAnswer],
     classified |-> [i \in Sites |-> NoFrame],
     structured |-> [i \in Sites |-> NoFrame],
     loaded |-> [i \in Sites |-> NoFrame],
     failed |-> [i \in Sites |-> <<>>]]

\* run_single_site up to app.ainvoke(state)
InitialState(i, url) ==
    [k \in {"url", "run_id"} |-> IF k = "url" THEN Strip(url) ELSE RunId(i)]

\* run_horizon_scan has built the graph and started one task per URL
Init ==
    /\ urls \in [Sites -> UrlInputs]
    /\ now = 0
    /\ fs = EmptyDict
    /\ st = [i \in Sites |-> InitialState(i, urls[i])]
    /\ pc = [i \in Sites |-> "scraper"]
    /\ loc = [i \in Sites |-> EmptyDict]
    /\ results = [i \in Sites |-> <<>>]
    /\ scan = "running"
    /\ merged = <<>>
    /\ hist = InitHist

Next ==
    \/ \E i \in Sites, outcome \in FetchOutcomes : Scraper(i, outcome)
    \/ \E i \in Sites : Cleaner(i)
    \/ \E i \in Sites : HtmlExtractor(i)
    \/ \E i \in Sites, resp \in PipelineAnswers : LlmExtractor(i, resp)
    \/ \E i \in Sites : ExclusionLoad(i)
    \/ \E i \in Sites, resp \in PipelineReviews : ExclusionReview(i, resp)
    \/ \E i \in Sites : ExclusionFinish(i)
    \/ \E i \in Sites : OutputNode(i)
    \/ GatherReturn
    \/ GatherRaise
    \/ Tick

Spec == Init /\ [][Next]_vars

\* ------------------------------------------- the structuring stage on its own
SeqsUpTo(S, n) == UNION {[1..k -> S] : k \in 0..n}

LinkA == <<Scheme, "a", ".", "gov", "/rule-123">>

LinkB == <<Scheme, "b", ".", "org", "/rule-123">>

\* the front page of a site
GenericLink == <<Scheme, "a", ".", "gov", "/">>

Absent == [j |-> "absent"]

\* an object from one choice per key; Absent leaves the key out
ObjectOf(choice) ==
    JObj([k \in {c \in DOMAIN choice : choice[c] # Absent} |-> choice[k]])

\* the objects an answer may hold: every key present, null or left out
AnswerObjects ==
    { ObjectOf(choice) : choice \in
        [date : {Absent, JStr(<<"2024-01-01">>)},
         topic : {Absent, JNull, JStr(Rule123)},
         additional_context : {Absent, JNull, JStr(<<"ctx">>)},
         link : {Absent, JNull, JStr(<<>>), JStr(LinkA), JStr(GenericLink)},
         regulator : {JStr(<<"SEC">>)}] }

\* elements that are not objects: numbers, null, strings, lists
AnswerNumbers == {JNum, JNull}

AnswerStrings == {JStr(<<"x">>), JStr(AC)}

AnswerLists ==
    { JArr(<<JStr(<<"2024-01-01">>), JStr(Rule123), JStr(<<"ctx">>), JStr(LinkA),
             JStr(<<"SEC">>)>>),
      JArr(<<JStr(<<"2024-01-01">>), JStr(Rule123), JStr(AC), JStr(LinkA),
             JStr(<<"SEC">>)>>),
      JArr(<<JStr(Rule123), JStr(AC), JStr(LinkA)>>) }

\* JSON texts that are not lists
AnswerScalars ==
    { JNull, JNum, JStr(<<>>), JStr(<<"x">>),
      JObj(EmptyDict),
      JObj([k \in {"topic"} |-> JStr(Rule123)]),
      JObj([k \in {"additional_context"} |-> JStr(<<"ctx">>)]),
      JObj([k \in {"additional_context"} |-> JNull]),
      JObj([k \in {"additional_context"} |-> JArr(<<JStr(<<"ctx">>), JStr(<<"more">>)>>)]) }

\* the bodies of an answer: lists of up to n elements of one kind, and
\* the texts that are no list
AnswerBodies(n) ==
    {NotJson} \cup AnswerScalars
    \cup {JArr(items) : items \in SeqsUpTo(AnswerObjects, n)}
    \cup {JArr(items) : items \in SeqsUpTo(AnswerNumbers, n)}
    \cup {JArr(items) : items \in SeqsUpTo(AnswerStrings, n)}
    \cup {JArr(items) : items \in SeqsUpTo(AnswerLists, n)}

AllAnswers(n) ==
    {AnswerRaises}
    \cup {Answer("none", body) : body \in AnswerBodies(n)}
    \cup {Answer(fence, JArr(<<FullRecord>>)) : fence \in {"json", "bare", "other"}}

\* the link inventories handed to the stage
LinkInventories == {{}, {LinkA, LinkB}}

StageSite == 1

\* site StageSite is about to run llm_extractor_node; no other site runs
InitStructurer ==
    /\ urls = [i \in Sites |-> UrlA1]
    /\ now = 0
    /\ \E inventory \in LinkInventories :
         LET path == ArtifactPath(EXTRACT_DIR, UrlA1, "_extracted.txt")
             text == <<"Update:", " ", "Rule", " ", "123">>
         IN  /\ fs = Put(EmptyDict, path, text)
             /\ st = [i \in Sites |->
                        IF i # StageSite THEN InitialState(i, UrlA1)
                        ELSE [k \in {"url", "extracted_text", "extracted_links",
                                     "extracted_file"} |->
                                 CASE k = "url" -> UrlA1
                                   [] k = "extracted_text" -> text
                                   [] k = "extracted_links" -> inventory
                                   [] k = "extracted_file" -> path]]
             /\ hist = [InitHist EXCEPT !.own =
                           [@ EXCEPT ![StageSite] = Put(EmptyDict, path, text)]]
    /\ pc = [i \in Sites |-> IF i = StageSite THEN "llm_extractor" ELSE "Done"]
    /\ loc = [i \in Sites |-> EmptyDict]
    /\ results = [i \in Sites |-> <<>>]
    /\ scan = "running"
    /\ merged = <<>>

NextStructurer == \E resp \in AllAnswers(MaxRows) : LlmExtractor(StageSite, resp)

SpecStructurer == InitStructurer /\ [][NextStructurer]_vars

\* ------------------------------------------- the relevance filter on its own
\* the members of an answer: each key present or left out
ReviewBodies ==
    { ObjectOf(choice).d : choice \in
        [recommendation : {Absent, JStr(<<"Include">>), JStr(<<"Exclude">>),
                           JStr(<<"Maybe">>), JNull},
         reason : {Absent, JStr(<<>>), JStr(<<"because">>)}] } \ {EmptyDict}

\* the dict json.loads makes of the members: strings and None
LoadedMembers(body) == [k \in DOMAIN body |-> CellOf(body[k])]

\* the texts of an answer: any sequence of up to MaxContentLen tokens, and
\* an object with any members, alone or inside prose
ReviewTexts ==
    {Review(toks, LoadedMembers(Decision(JStr(<<"Include">>), JStr(<<"because">>)))) :
        toks \in SeqsUpTo({"{", "}", "b", "p"}, MaxContentLen)}
    \cup {Review(pre \o <<"{", "b", "}">> \o post, LoadedMembers(body)) :
            pre \in SeqsUpTo({"p"}, 1), post \in SeqsUpTo({"p"}, 1),
            body \in ReviewBodies}

AllReviews ==
    {ReviewRaises(msg) : msg \in {<<>>, <<"Connection error.">>}} \cup ReviewTexts

\* the records of the frames the filter is handed
FilterRecords ==
    { FullRecord,
      JObj([k \in {"topic", "additional_context", "link", "regulator"} |->
               CASE k = "topic" -> JStr(Rule123)
                 [] k = "additional_context" -> JStr(<<>>)
                 [] k = "link" -> JStr(LinkA)
                 [] k = "regulator" -> JStr(<<"N/A">>)]) }

\* the files the structuring stage writes for them
FilterFiles(n) ==
    { ToCsv(FixLinks(ClassifyWithLLM(Answer("none", JArr(items))), {})) :
        items \in SeqsUpTo(FilterRecords, n) }

\* site StageSite is about to run exclusion_node; no other site runs
InitFilter ==
    /\ urls = [i \in Sites |-> UrlA1]
    /\ now = 0
    /\ \E csv \in FilterFiles(MaxRows) :
         LET path == StampedPath(UrlA1, "_llm_output_", 0)
         IN  /\ fs = Put(EmptyDict, path, csv)
             /\ st = [i \in Sites |->
                        IF i # StageSite THEN InitialState(i, UrlA1)
                        ELSE [k \in {"url", "llm_output_file"} |->
                                 IF k = "url" THEN UrlA1 ELSE path]]
             /\ hist = [InitHist EXCEPT !.own =
                           [@ EXCEPT ![StageSite] = Put(EmptyDict, path, csv)]]
    /\ pc = [i \in Sites |-> IF i = StageSite THEN "exclusion" ELSE "Done"]
    /\ loc = [i \in Sites |-> EmptyDict]
    /\ results = [i \in Sites |-> <<>>]
    /\ scan = "running"
    /\ merged = <<>>

NextFilter ==
    \/ ExclusionLoad(StageSite)
    \/ \E resp \in AllReviews : ExclusionReview(StageSite, resp)
    \/ ExclusionFinish(StageSite)

SpecFilter == InitFilter /\ [][NextFilter]_vars

\* ------------------------------------------- ExtractorAgent and its link repair
\* str(link).strip().lower() ends with "/": the last token does
EndsWithSlash(s) == s # <<>> /\ s[Len(s)] \in {"/", "/2024/"}

\* ExtractorAgent._is_link_suspicious
IsLinkSuspicious(link) ==
    IF link.t # "str" THEN TRUE                      \* pd.isna(link)
    ELSE LET l == Lower(Strip(link.s))
         IN  \/ EndsWithSlash(l)
             \/ Contains(l, "#content__main")
             \/ Contains(l, "?topics=")
             \/ Contains(l, "?filters=")

\* df["link"].fillna(""): the link texts, a missing link as the empty text
LinkTexts(df) == [k \in 1..Len(df.rows) |-> CellText(df.rows[k]["link"])]

\* .value_counts(): how many rows hold a text
LinkCount(df, text) ==
    Cardinality({k \in 1..Len(df.rows) : CellText(df.rows[k]["link"]) = text})

\* the index of value_counts(): the distinct texts
DistinctLinks(df) == SeqToSet(LinkTexts(df))

\* the texts value_counts() may put first: those of the greatest count
MostCommonLinks(df) ==
    LET texts == DistinctLinks(df)
        count == [x \in texts |-> LinkCount(df, x)]
    IN  {x \in texts : \A y \in texts : count[y] <= count[x]}

\* link_counts.iloc[0]
TopCount(df) == LinkCount(df, CHOOSE x \in MostCommonLinks(df) : TRUE)

\* one turn of a repair loop on a row chosen for matching: the row with the
\* best match, the row as it is when nothing matches, or Raised
Rematch(row, links) ==
    IF row["topic"].t # "str" THEN Raised             \* topic.lower() on NaN or None
    ELSE LET matches == GetCloseMatches(Lower(row["topic"].s), links)
         IN  IF matches # <<>> THEN [row EXCEPT !["link"] = Str(matches[1])] ELSE row

\* the rows after a repair loop that matches the rows of chosen, or Raised
RepairRows(df, chosen, links) ==
    LET rows == [k \in 1..Len(df.rows) |->
                    IF k \in chosen THEN Rematch(df.rows[k], links) ELSE df.rows[k]]
    IN  IF \E k \in chosen : rows[k] = Raised THEN Raised
        ELSE [df EXCEPT !.rows = rows]

\* the thresholds of the low-variety test
LowVarietyLinks == 3

\* ExtractorAgent._fix_links_by_matching_titles: the frame, or Raised
FixLinksByMatchingTitles(df, known_links) ==
    IF \/ Cardinality(DistinctLinks(df)) <= LowVarietyLinks
       \/ TopCount(df) > Len(df.rows) \div 2
    THEN RepairRows(df, {k \in 1..Len(df.rows) : IsLinkSuspicious(df.rows[k]["link"])},
                    known_links)
    ELSE df

\* the link has no "#", "topics=", "filters=" or "content__main" in it
NoNavigationPattern(link) ==
    \A k \in 1..Len(link) : link[k] \notin {"#main", "#content__main", "?topics=", "?filters="}

\* the link has /dddd/ or a regulator slug in it
LooksLikeUpdate(link) ==
    \E k \in 1..Len(link) : link[k] \in {"/2024/", "cfpb-", "finra-", "whitehouse"}

\* ExtractorAgent._filter_relevant_links
FilterRelevantLinks(links) ==
    {link \in links : NoNavigationPattern(link) /\ LooksLikeUpdate(link)}

\* repetition_rate >= 0.2, in fifths
RepetitionFifths == 1

\* ExtractorAgent._fix_repeated_links, most_common_link being the text
\* value_counts() puts first: the frame, or Raised
FixRepeatedLinks(df, all_links, most_common_link) ==
    IF df.rows = <<>> THEN df                                   \* repeated.empty
    ELSE IF 5 * LinkCount(df, most_common_link) >= RepetitionFifths * Len(df.rows)
    THEN RepairRows(df,
                    {k \in 1..Len(df.rows) :
                        \/ IsLinkSuspicious(df.rows[k]["link"])
                        \/ df.rows[k]["link"] = Str(most_common_link)},
                    FilterRelevantLinks(all_links))
    ELSE df

\* ExtractorAgent.run, line 153; loc holds the locals of run
ExtractorLowVariety(i) ==
    /\ pc[i] = "extractor_low_variety"
    /\ LET df == FixLinksByMatchingTitles(loc[i]["df"], loc[i]["links"])
       IN  IF df = Raised THEN Fail(i, "extractor", "AttributeError")
           ELSE /\ loc' = [loc EXCEPT ![i] = Put(Put(@, "df", df), "low", df)]
                /\ pc' = [pc EXCEPT ![i] = "extractor_repetition"]
                /\ UNCHANGED <<urls, now, fs, st, results, scan, merged, hist>>

\* ExtractorAgent.run, line 154
ExtractorRepetition(i) ==
    /\ pc[i] = "extractor_repetition"
    /\ \E most_common_link \in MostCommonLinks(loc[i]["df"]) \cup {<<>>} :
         /\ loc[i]["df"].rows # <<>> => most_common_link \in MostCommonLinks(loc[i]["df"])
         /\ LET df == FixRepeatedLinks(loc[i]["df"], loc[i]["links"], most_common_link)
            IN  IF df = Raised THEN Fail(i, "extractor", "AttributeError")
                ELSE /\ loc' = [loc EXCEPT ![i] =
                                  Put(Put(@, "df", df), "most_common_link", most_common_link)]
                     /\ pc' = [pc EXCEPT ![i] = "extractor_save"]
                     /\ UNCHANGED <<urls, now, fs, st, results, scan, merged, hist>>

\* ExtractorAgent.run, lines 156-164
ExtractorSave(i) ==
    /\ pc[i] = "extractor_save"
    /\ LET url == Get(st[i], "url", <<>>)
           df == loc[i]["df"]
           output_path == StampedPath(url, "_llm_output_", now)
       IN  /\ fs' = Put(fs, output_path, ToCsv(df))
           /\ st' = [st EXCEPT ![i] =
                        Put(Put(@, "llm_dataframe", df), "llm_output_file", output_path)]
           /\ pc' = [pc EXCEPT ![i] = "extractor_done"]
           /\ hist' = LogWrite(hist, i, output_path, ToCsv(df))
           /\ UNCHANGED <<urls, now, loc, results, scan, merged>>

\* the links of the records and of the inventories
LinkY == <<Scheme, "a", ".", "gov", "/2024/", "rule-123">>

LinkMain == <<Scheme, "a", ".", "gov", "/x", "#content__main">>

LinkTopics == <<Scheme, "a", ".", "gov", "/news", "?topics=", "rule-123">>

SharedLink == <<Scheme, "a", ".", "gov", "/news">>

UniqueLink(k) == <<Scheme, "a", ".", "gov", "/u", ToString(k)>>

RepairInventories == {{LinkA, LinkB}, {LinkA, LinkY, LinkMain, LinkTopics}}

MaxRecords == 6

\* the link of record k: a link of its own, a link other records share, a
\* navigation link, the empty text, or none
LinkKinds == {"own", "shared", "generic", "empty", "missing"}

RecordLink(kind, k) ==
    CASE kind = "own" -> Str(UniqueLink(k))
      [] kind = "shared" -> Str(SharedLink)
      [] kind = "generic" -> Str(GenericLink)
      [] kind = "empty" -> Str(<<>>)
      [] kind = "missing" -> NaN

RepairRecord(link) ==
    [c \in SeqToSet(BaseColumns) |->
        CASE c = "date" -> Str(<<"2024-01-01">>)
          [] c = "topic" -> Str(Rule123)
          [] c = "additional_context" -> Str(<<>>)
          [] c = "link" -> link
          [] c = "regulator" -> Str(<<"SEC">>)]

\* the frames _classify_with_llm hands to the repair: up to n records
RepairFrames(n) ==
    { [cols |-> BaseColumns,
       rows |-> [k \in 1..Len(kinds) |-> RepairRecord(RecordLink(kinds[k], k))]] :
        kinds \in SeqsUpTo(LinkKinds, n) }

\* ExtractorAgent.run has classified the text of a document (line 152)
InitRepair ==
    /\ urls = [i \in Sites |-> UrlA1]
    /\ now = 0
    /\ fs = EmptyDict
    /\ st = [i \in Sites |-> [k \in {"url"} |-> UrlA1]]
    /\ pc = [i \in Sites |-> IF i = StageSite THEN "extractor_low_variety" ELSE "Done"]
    /\ \E df \in RepairFrames(MaxRecords), links \in RepairInventories :
         loc = [i \in Sites |->
                   IF i # StageSite THEN EmptyDict
                   ELSE [k \in {"classified", "df", "links"} |->
                            IF k = "links" THEN links ELSE df]]
    /\ results = [i \in Sites |-> <<>>]
    /\ scan = "running"
    /\ merged = <<>>
    /\ hist = InitHist

NextRepair ==
    \/ ExtractorLowVariety(StageSite)
    \/ ExtractorRepetition(StageSite)
    \/ ExtractorSave(StageSite)

SpecRepair == InitRepair /\ [][NextRepair]_vars


\* ------------------------------------- the sanitizer and the text extractor
MaxNodes == 3

\* the strings of a document: a word, white space, and a text with " (" in it
DocTexts == {<<"x">>, <<" ">>, <<"Rule", " ", "123", " (", "draft", ")">>}

\* the targets of its anchors: relative to the root of the site
DocHrefs == {<<"/rule-123">>, <<"/x", ")">>}

\* a node without children: a string, a br, an element that holds nothing
DocLeaves ==
    {Txt(t) : t \in DocTexts} \cup {El(t, <<>>) : t \in {"br", "div", "nav"}}
    \cup {Anchor(h, <<>>) : h \in DocHrefs}

RECURSIVE TreesOf(_)
RECURSIVE ForestsOf(_)
\* the trees of n nodes
TreesOf(n) ==
    IF n = 1 THEN DocLeaves
    ELSE {El(t, f) : t \in {"div", "nav"}, f \in ForestsOf(n - 1)}
         \cup {Anchor(h, f) : h \in DocHrefs, f \in ForestsOf(n - 1)}

\* the lists of trees of n nodes in all
ForestsOf(n) ==
    IF n = 0 THEN {<<>>}
    ELSE UNION { {<<h>> \o r : h \in TreesOf(k), r \in ForestsOf(n - k)} : k \in 1..n }

\* the documents a page may be: up to m nodes
Documents(m) == UNION { {Doc(f) : f \in ForestsOf(n)} : n \in 0..m }

\* scraper_node has returned the page of site StageSite
InitDocs ==
    /\ urls = [i \in Sites |-> UrlA1]
    /\ now = 0
    /\ \E html \in Documents(MaxNodes) :
         LET path == ArtifactPath(OUTPUT_DIR, UrlA1, "_scraped.html")
         IN  /\ fs = Put(EmptyDict, path, html)
             /\ st = [i \in Sites |->
                        IF i # StageSite THEN InitialState(i, UrlA1)
                        ELSE Put(Put(InitialState(i, UrlA1), "scraped_html", html),
                                 "scraped_file", path)]
             /\ hist = [InitHist EXCEPT !.own =
                           [@ EXCEPT ![StageSite] = Put(EmptyDict, path, html)]]
    /\ pc = [i \in Sites |-> IF i = StageSite THEN "cleaner" ELSE "Done"]
    /\ loc = [i \in Sites |-> EmptyDict]
    /\ results = [i \in Sites |-> <<>>]
    /\ scan = "running"
    /\ merged = <<>>

NextDocs ==
    \/ Cleaner(StageSite)
    \/ HtmlExtractor(StageSite)

SpecDocs == InitDocs /\ [][NextDocs]_vars

\* ------------------------------------------------------------------ properties
Terminal(i) == pc[i] \in {"Done", "Failed"}

\* the records of results[i] appear in merged, in their order, where the
\* merge puts the records of site i
InMerged(i) ==
    LET before == Len(Flatten([j \in 1..(i - 1) |-> results[j]]))
    IN  /\ Len(merged) >= before + Len(results[i])
        /\ \A k \in 1..Len(results[i]) : merged[before + k] = results[i][k]

\* C1: when a stage of one site's pipeline raises, run_horizon_scan does not
\* raise, and once it has returned the merged output holds the records every
\* other site's pipeline produced.
C1_FailureIsolated ==
    \A i \in Sites :
        pc[i] = "Failed" =>
            /\ scan # "raised"
            /\ scan = "returned" =>
                  \A j \in Sites \ {i} : pc[j] = "Done" => InMerged(j)

\* the URL site i runs on differs from the URL of every other site
OwnUrl(i) == \A j \in Sites \ {i} : Strip(urls[j]) # Strip(urls[i])

\* C2: site pipelines of distinct URLs, two URLs of one domain included, share
\* no artifact path: no path one writes is written or read by the other, and
\* what a stage reads is what an earlier stage of its own site wrote.
C2_NoSharedArtifacts ==
    \A i \in Sites :
        OwnUrl(i) =>
            /\ i \notin hist.foreign
            /\ \A j \in Sites \ {i} : \A w \in hist.wrote :
                  w[1] = i => <<j, w[2]>> \notin (hist.wrote \cup hist.read)

\* C3: run_horizon_scan leaves the gather, to merge or otherwise, only after
\* every site pipeline has reached Done or Failed.
C3_GatherAwaitsAll ==
    scan # "running" => \A i \in Sites : Terminal(i)

\* C4: when the page fetch of a site fails, the scraper stage does not raise
\* and hands on a non-empty error document naming the URL, and the site's
\* pipeline goes on through the later stages without failing.
C4_FetchFailureContinues ==
    \A i \in Sites :
        hist.fetchFailed[i] =>
            /\ pc[i] # "Failed"
            /\ Has(st[i], "scraped_html") =>
                  st[i]["scraped_html"] = ErrorPage(Strip(urls[i]), CHOOSE e \in FetchErrors : TRUE)

\* C5: every record of the merged output carries the source_url and the
\* run_id of the site pipeline that produced it, the run_id being the one
\* run_single_site gave that pipeline.
C5_RecordsStamped ==
    scan = "returned" =>
        \A i \in Sites : \A k \in 1..Len(results[i]) :
            /\ InMerged(i)
            /\ Get(results[i][k], "source_url", None) = Str(Strip(urls[i]))
            /\ Get(results[i][k], "run_id", None) = Str(RunId(i))

\* the frame of the relevance filter of site i, in its loop and after it
FilterFrame(i) ==
    IF pc[i] = "exclusion_loop" THEN loc[i]["df"]
    ELSE Get(st[i], "filtered_dataframe", NoFrame)

\* the rows the loop has reviewed so far
Reviewed(i) == 1..Len(hist.failed[i])

NonEmptyText(cell) == cell.t = "str" /\ cell.s # <<>>

\* C6: when the review of a record fails (the call raises, the answer holds
\* no JSON object, or the text from the first "{" to the last "}" is not valid
\* JSON), the stage does not raise and the record is labelled Exclude with a
\* non-empty reason.
C6_FailClosed ==
    \A i \in Sites :
        /\ (\E r \in Reviewed(i) : hist.failed[i][r]) => pc[i] # "Failed"
        /\ \A r \in Reviewed(i) :
              hist.failed[i][r] =>
                  /\ FilterFrame(i).rows[r]["Recommendation"] = Str(<<"Exclude">>)
                  /\ NonEmptyText(FilterFrame(i).rows[r]["Reason"])

\* the stage has ended after a review that failed and one that did not
C6_Witness ==
    \E i \in Sites :
        /\ pc[i] = "output"
        /\ \E r, q \in Reviewed(i) : hist.failed[i][r] /\ ~hist.failed[i][q]
        /\ \A r \in Reviewed(i) :
              hist.failed[i][r] =>
                  FilterFrame(i).rows[r]["Recommendation"] = Str(<<"Exclude">>)

\* C7: every record the filter has reviewed has Recommendation Include or
\* Exclude and a non-empty Reason, whatever the classifier answered.
C7_DecisionWellFormed ==
    \A i \in Sites : \A r \in Reviewed(i) :
        /\ FilterFrame(i).rows[r]["Recommendation"] \in {Str(<<"Include">>), Str(<<"Exclude">>)}
        /\ NonEmptyText(FilterFrame(i).rows[r]["Reason"])

\* C8: the output of the filter stage holds the records it was handed, as
\* many and in their order, with the five base fields unchanged and with a
\* Recommendation and a Reason on every row, Exclude rows included.
C8_RowsPreserved ==
    \A i \in Sites :
        Has(st[i], "final_updates") =>
            LET out == st[i]["final_updates"]
                handed == hist.loaded[i].rows
            IN  /\ Len(out) = Len(handed)
                /\ \A k \in 1..Len(out) :
                      /\ \A c \in SeqToSet(BaseColumns) : CellText(out[k][c]) = handed[k][c]
                      /\ {"Recommendation", "Reason"} \subseteq DOMAIN out[k]

\* the answer is a JSON array of objects, bare or inside a code fence
IsArrayOfObjects(resp) ==
    /\ resp.kind = "text"
    /\ resp.fence # "other"
    /\ resp.body # NotJson
    /\ resp.body.j = "arr"
    /\ AllOfKind(resp.body.items, "obj")

Answered(i) == hist.answer[i].kind # "none"

\* C9: when the classifier call raises or its answer is not a JSON array of
\* objects, the structuring stage yields zero records with the five columns
\* and does not raise.
C9_UnusableAnswerYieldsNothing ==
    \A i \in Sites :
        Answered(i) /\ ~IsArrayOfObjects(hist.answer[i]) =>
            /\ pc[i] # "Failed"
            /\ hist.classified[i] = EmptyFrame
            /\ hist.structured[i] = EmptyFrame

\* C10: for an answer that is a JSON array of objects, whatever keys an object
\* omits or gives as null, the stage does not raise and yields one record per
\* element, each with the five fields, additional_context being the empty
\* text where the object omitted it.
C10_PartialRecordsAccepted ==
    \A i \in Sites :
        Answered(i) /\ IsArrayOfObjects(hist.answer[i]) =>
            LET items == hist.answer[i].body.items
                rows == hist.structured[i].rows
            IN  /\ pc[i] # "Failed"
                /\ Len(rows) = Len(items)
                /\ \A k \in 1..Len(rows) :
                      /\ DOMAIN rows[k] = SeqToSet(BaseColumns)
                      /\ "additional_context" \notin DOMAIN items[k].d =>
                            rows[k]["additional_context"] = Str(<<>>)

\* the suspicion test as the link repair is specified: a link is suspicious
\* if it is missing, empty or blank, ends with "/", or holds the main-content
\* fragment, topics= or filters=
SuspiciousAsSpecified(link) ==
    \/ link.t # "str"
    \/ Strip(link.s) = <<>>
    \/ link.s[Len(link.s)] \in {"/", "/2024/"}
    \/ \E k \in 1..Len(link.s) : link.s[k] \in {"#content__main", "?topics=", "?filters="}

\* the link a repair attempt leaves on a row: the best match of its topic in
\* pool, or the link it had
Attempted(row, pool) ==
    LET matches == GetCloseMatches(Lower(row["topic"].s), pool)
    IN  IF matches # <<>> THEN Str(matches[1]) ELSE row["link"]

\* the low-variety pass of site i has run
LowVarietyDone(i) == pc[i] \in {"extractor_repetition", "extractor_save", "extractor_done"}

\* both passes of site i have run
RepairDone(i) == pc[i] \in {"extractor_save", "extractor_done"}

\* C11: for records with at most 3 distinct links, the low-variety pass leaves
\* on every record with a suspicious link the best match of its topic in the
\* inventory, or its link when nothing matches; for records with more than 3
\* distinct links none of which covers more than half of them, the link
\* repair changes no link.
C11_RepairThresholds ==
    \A i \in Sites :
        LowVarietyDone(i) =>
            LET before == loc[i]["classified"]
                low == loc[i]["low"]
                n == Len(before.rows)
            IN  /\ Cardinality(DistinctLinks(before)) <= 3 =>
                      \A k \in 1..n :
                          SuspiciousAsSpecified(before.rows[k]["link"]) =>
                              low.rows[k]["link"] = Attempted(before.rows[k], loc[i]["links"])
                /\ (/\ Cardinality(DistinctLinks(before)) > 3
                    /\ \A x \in DistinctLinks(before) : 2 * LinkCount(before, x) <= n
                    /\ RepairDone(i)) =>
                      \A k \in 1..n : loc[i]["df"].rows[k]["link"] = before.rows[k]["link"]

\* C15: the suspicion test of the link repair calls a link suspicious exactly
\* when it is missing, empty or blank, ends with "/", or holds the
\* main-content fragment, topics= or filters=.
C15_SuspicionTest ==
    \A i \in Sites :
        LowVarietyDone(i) =>
            \A k \in 1..Len(loc[i]["classified"].rows) :
                LET link == loc[i]["classified"].rows[k]["link"]
                IN  IsLinkSuspicious(link) <=> SuspiciousAsSpecified(link)

\* C16: when the most frequent link covers at least a fifth of the records,
\* the repetition pass re-matches exactly the records whose link is
\* suspicious or is that link, in the narrowed pool, a record without a match
\* keeping its link; when it covers less, the pass changes no link.
C16_RepetitionRepair ==
    \A i \in Sites :
        RepairDone(i) =>
            LET low == loc[i]["low"]
                out == loc[i]["df"]
                dominant == loc[i]["most_common_link"]
                pool == {l \in loc[i]["links"] : NoNavigationPattern(l) /\ LooksLikeUpdate(l)}
                n == Len(low.rows)
            IN  IF 5 * LinkCount(low, dominant) >= n
                THEN \A k \in 1..n :
                        out.rows[k]["link"] =
                            IF \/ SuspiciousAsSpecified(low.rows[k]["link"])
                               \/ low.rows[k]["link"] = Str(dominant)
                            THEN Attempted(low.rows[k], pool)
                            ELSE low.rows[k]["link"]
                ELSE out = low

RECURSIVE Elements(_)
\* the elements of a list of trees, at every depth
Elements(kids) ==
    IF kids = <<>> THEN {}
    ELSE (IF Head(kids).tag = "#text" THEN {} ELSE {Head(kids)})
         \cup Elements(Head(kids).kids) \cup Elements(Tail(kids))

RECURSIVE Strings(_)
\* the stripped strings below a list of trees that are not empty
Strings(kids) ==
    IF kids = <<>> THEN {}
    ELSE (IF Head(kids).tag = "#text" /\ Strip(Head(kids).text) # <<>>
          THEN {Strip(Head(kids).text)} ELSE {})
         \cup Strings(Head(kids).kids) \cup Strings(Tail(kids))

\* C12: the output of the sanitizer holds no script, style, noscript, header,
\* footer, nav or aside element at any depth and no element without text
\* other than br and hr, and sanitizing it again changes nothing.
C12_SanitizeIdempotent ==
    \A i \in Sites :
        Has(st[i], "cleaned_html") =>
            LET out == st[i]["cleaned_html"]
            IN  /\ \A e \in Elements(out.kids) :
                      /\ e.tag \notin {"script", "style", "noscript", "header",
                                       "footer", "nav", "aside"}
                      /\ e.tag \in {"br", "hr"} \/ Strings(e.kids) # {}
                /\ CleanHtmlContent(out) = out

\* the sanitizer has removed a nav inside a div and an element without text,
\* and has kept some of the page
C12_Witness ==
    \E i \in Sites :
        /\ Has(st[i], "cleaned_html")
        /\ \E e \in Elements(st[i]["scraped_html"].kids) :
              e.tag = "div" /\ \E k \in 1..Len(e.kids) : e.kids[k].tag = "nav"
        /\ Elements(st[i]["cleaned_html"].kids) # {}
        /\ \A e \in Elements(st[i]["cleaned_html"].kids) : e.tag # "nav"

RECURSIVE AnchorUnits(_)
\* the targets of the anchors the traversal captures as anchor units: the
\* anchors with a target and a text, outside any other such anchor
AnchorUnits(kids) ==
    IF kids = <<>> THEN {}
    ELSE LET h == Head(kids)
         IN  (IF h.tag = "#text" THEN {}
              ELSE IF h.tag = "a" /\ h.href # <<>>
              THEN IF Strings(h.kids) # {} THEN {h.href} ELSE {}
              ELSE AnchorUnits(h.kids))
             \cup AnchorUnits(Tail(kids))

\* C14: the link inventory of the text extractor is the set of the targets of
\* the captured anchors, each resolved against the base URL and unaltered;
\* nothing in it comes from a plain string.
C14_InventoryFromAnchors ==
    \A i \in Sites :
        Has(st[i], "extracted_links") =>
            LET url == st[i]["url"]
                html == fs[ArtifactPath(OUTPUT_DIR, url, "_cleaned.html")]
                body == FindBody(html.kids)
            IN  st[i]["extracted_links"] =
                    {UrlJoin(url, h) : h \in AnchorUnits(IF body # <<>> THEN body ELSE html.kids)}

\* C17: the state of a site only grows along its stages: every field it has
\* before a stage (url, run_id, the artifacts of the earlier stages) is there
\* with the same value after the stage, up to the output stage.
C17_AppendOnly ==
    [][\A i \in Sites :
          \A k \in DOMAIN st[i] :
              k \in DOMAIN st'[i] /\ st'[i][k] = st[i][k]]_vars

\* the records the link repair leaves of a frame, for each text value_counts()
\* may put first: the low-variety repair, then the repetition repair
Repaired(df, links) ==
    LET low == FixLinksByMatchingTitles(df, links)
    IN  IF low = Raised THEN {Raised}
        ELSE {FixRepeatedLinks(low, links, m) :
                 m \in IF low.rows = <<>> THEN {<<>>} ELSE MostCommonLinks(low)}

\* C13: in the pipeline of a site the records the structuring stage hands to
\* the relevance filter are the classified records after the link repair
\* (low-variety, then repetition) followed by the top-up of the empty links.
C13_RepairBeforeTopUp ==
    [][\A i \in Sites :
          pc[i] = "llm_extractor" /\ pc'[i] = "exclusion" =>
              LET links == st[i]["extracted_links"]
                  repaired == Repaired(hist'.classified[i], links)
              IN  Raised \notin repaired =>
                      hist'.structured[i] \in {FixLinks(df, links) : df \in repaired}]_vars

====
